---------------------------- MODULE Spec2Model ----------------------------
(***************************************************************************)
(* Bounding-volume construction of the ei 3d types (src/src/3dtypes.cpp):  *)
(* the closed-form sphere solvers for 2, 3 and 4 points, the minimal       *)
(* enclosing sphere engine (minimalBoundingSphere over a singly linked     *)
(* list), the extreme point-set reducer convexSet, the oriented box fitter *)
(* OBox(points, n) and the plane set of FastFrustum.                       *)
(*                                                                         *)
(* Numbers.  The source computes in IEEE single precision.  The model      *)
(* computes the same expressions over the rationals: a point is a triple   *)
(* of integers, a sphere is its center cn/cd together with its SQUARED     *)
(* radius rn/rd (the source only ever compares radius*radius), and a       *)
(* comparison is decided by cross-multiplication.  Rounding matters where  *)
(* the source compares two quantities that are equal over the rationals:   *)
(* such a comparison of a point against a sphere has both outcomes unless  *)
(* the sphere is held exactly.  A value the source obtains by dividing by  *)
(* zero (NaN/inf) is the record Undefined, and a comparison with it is     *)
(* false, as for a NaN.                                                    *)
(*                                                                         *)
(* Indices.  next links are the C++ 0-based indices; -1 is the end marker, *)
(* which the source reads back as the uint32 0xffffffff.                   *)
(***************************************************************************)
EXTENDS Integers, Sequences, FiniteSets, TLC

VARIABLES
    sargs,      \* solver call: the points handed to Sphere(p0,p1,p2[,p3])
    sres,       \* solver call: the sphere constructed
    spc,        \* solver call: "call" | "done" | "off"
    points,     \* MES call: the caller's buffer _points (1-based sequence)
    list,       \* MES call: the SingleLinkedPointList array, index 0..n-1
    alloc,      \* MES call: TRUE while the list array is allocated
    wild,       \* MES call: content of the memory cell an out-of-range index hits
    stack,      \* MES call: activation records of minimalBoundingSphere
    result,     \* MES call: the sphere assigned to *this
    status,     \* MES call: "call" | "running" | "done" | "fault" | "off" |
                \*   "assert_points" | "assert_iteration" (the failed eiAssert)
    input,      \* reducer: the buffer as handed to the first convexSet call
    buf,        \* reducer: the buffer _points (1-based sequence, physical length fixed)
    numPoints,  \* reducer: the logical count _numPoints
    threshold,  \* reducer: _threshold
    ri,         \* reducer: the outer loop index i of the running phase
    rpc,        \* reducer: "call" | "phase1" | "between" | "phase2" | "done" | "off"
    run,        \* reducer: 1 for the first call, 2 for the call on its own output
    count1,     \* reducer: value returned by the first call (-1 before it returns)
    opts,       \* box fitter: the caller's buffer _points (1-based sequence)
    obox,       \* box fitter: *this, the box under construction
    oloop,      \* box fitter: the loop indices i, j, k, xAxis and the position
    otried,     \* box fitter: the candidate frames evaluated so far, in order
    oreads,     \* box fitter: the buffer indices read so far
    opc,        \* box fitter: "call" | "search" | "done" | "fault" | "off"
    fr,         \* frustum builder: the Frustum handed to the constructor
    ff,         \* frustum builder: the FastFrustum constructed
    fpc         \* frustum builder: "call" | "done" | "off"

vars == <<sargs, sres, spc, points, list, alloc, wild, stack, result, status,
          input, buf, numPoints, threshold, ri, rpc, run, count1,
          opts, obox, oloop, otried, oreads, opc, fr, ff, fpc>>

solverVars == <<sargs, sres, spc>>
mesVars == <<points, list, alloc, wild, stack, result, status>>
reducerVars == <<input, buf, numPoints, threshold, ri, rpc, run, count1>>
oboxVars == <<opts, obox, oloop, otried, oreads, opc>>
frustumVars == <<fr, ff, fpc>>

---------------------------------------------------------------------------
(* Bounds of the model *)

MaxCoord == 2           \* solver inputs: coordinates 0..MaxCoord
MaxSpherePoints == 4    \* MES inputs: buffers of 0..MaxSpherePoints points
MaxSetPoints == 6       \* reducer inputs: buffers of 0..MaxSetPoints points
MaxRepeatPoints == 3    \* reducer inputs: buffers with repeated points up to this length
MaxThreshold == 1       \* reducer inputs: thresholds 0..MaxThreshold
MaxBoxPoints == 4       \* box fitter inputs: buffers of 0..MaxBoxPoints points
MaxWildReads == 3       \* box fitter: iterations that read outside the buffer before one faults
MaxExtent == 2          \* frustum inputs: l, r, b, t in -MaxExtent..MaxExtent
MaxDepth == 3           \* frustum inputs: n, f in 0..MaxDepth

---------------------------------------------------------------------------
(* Vector algebra (ei/vector.hpp) *)

Abs(x) == IF x < 0 THEN -x ELSE x

RECURSIVE GCD(_, _)
GCD(a, b) == IF b = 0 THEN a ELSE GCD(b, a % b)

Sgn(x) == IF x > 0 THEN 1 ELSE IF x < 0 THEN -1 ELSE 0

sub(a, b) == <<a[1] - b[1], a[2] - b[2], a[3] - b[3]>>

add(a, b) == <<a[1] + b[1], a[2] + b[2], a[3] + b[3]>>

scale(a, s) == <<a[1] * s, a[2] * s, a[3] * s>>

dot(a, b) == a[1] * b[1] + a[2] * b[2] + a[3] * b[3]

cross(a, b) == <<a[2] * b[3] - a[3] * b[2],
                 a[3] * b[1] - a[1] * b[3],
                 a[1] * b[2] - a[2] * b[1]>>

lensq(a) == dot(a, a)

determinant(r1, r2, r3) == dot(r1, cross(r2, r3))

---------------------------------------------------------------------------
(* Spheres: center cn/cd (cd > 0), squared radius rn/rd (rd > 0), both in   *)
(* lowest terms.  cex and rex tell whether the single precision center and  *)
(* radius the source holds ARE these values (every operation that produced  *)
(* them was exact) or are roundings of them.                                *)

Undefined == [cn |-> <<0, 0, 0>>, cd |-> 0, rn |-> 0, rd |-> 0,
              cex |-> FALSE, rex |-> FALSE]

IsDefined(s) == s.cd > 0 /\ s.rd > 0

RECURSIVE PowerOfTwo(_)
PowerOfTwo(n) == n = 1 \/ (n > 1 /\ n % 2 = 0 /\ PowerOfTwo(n \div 2))

\* n / d has a finite binary expansion: the single precision quotient is exact
Dyadic(n, d) == d # 0 /\ PowerOfTwo(Abs(d) \div GCD(Abs(d), Abs(n)))

RECURSIVE RootFrom(_, _)
RootFrom(n, k) == IF k * k >= n THEN k ELSE RootFrom(n, k + 1)

IsSquare(n) == n >= 0 /\ RootFrom(n, 0) * RootFrom(n, 0) = n

\* sqrt(n / d) has a finite binary expansion: the single precision root is exact
DyadicRoot(n, d) ==
    /\ d > 0 /\ n >= 0
    /\ LET g == GCD(d, n)
       IN  IsSquare(n \div g) /\ IsSquare(d \div g) /\ PowerOfTwo(d \div g)

MkSphere(cn, cd, rn, rd, cex, rex) ==
    IF cd = 0 \/ rd = 0 THEN Undefined
    ELSE LET sc == IF cd < 0 THEN -1 ELSE 1
             sr == IF rd < 0 THEN -1 ELSE 1
             gc == GCD(GCD(GCD(Abs(cd), Abs(cn[1])), Abs(cn[2])), Abs(cn[3]))
             gr == GCD(Abs(rd), Abs(rn))
         IN  [cn |-> <<(sc * cn[1]) \div gc, (sc * cn[2]) \div gc, (sc * cn[3]) \div gc>>,
              cd |-> Abs(cd) \div gc,
              rn |-> (sr * rn) \div gr,
              rd |-> Abs(rd) \div gr,
              cex |-> cex, rex |-> rex]

\* lensq(p - c.center) > r.radius * r.radius, decided over the rationals
DistSqExceeds(c, r, p) ==
    /\ c.cd > 0 /\ r.rd > 0
    /\ lensq(sub(scale(p, c.cd), c.cn)) * r.rd > r.rn * c.cd * c.cd

\* lensq(p - c.center) = r.radius * r.radius over the rationals
DistSqEquals(c, r, p) ==
    /\ c.cd > 0 /\ r.rd > 0
    /\ lensq(sub(scale(p, c.cd), c.cn)) * r.rd = r.rn * c.cd * c.cd

\* The single precision test lensq(p - c.center) > r.radius * r.radius can
\* come out true: it does when the rational values compare so, and rounding
\* can make it so when they are equal and one side is not held exactly.
MayExceed(c, r, p) ==
    DistSqExceeds(c, r, p) \/ (DistSqEquals(c, r, p) /\ ~(c.cex /\ r.rex))

\* The same test can come out false.
MayNotExceed(c, r, p) == ~DistSqExceeds(c, r, p)

\* p is inside or on the sphere with center cn/cd and squared radius rn/rd
Contains(s, p) ==
    /\ IsDefined(s)
    /\ lensq(sub(scale(p, s.cd), s.cn)) * s.rd <= s.rn * s.cd * s.cd

\* p lies on the boundary of that sphere
OnBoundary(s, p) ==
    /\ IsDefined(s)
    /\ lensq(sub(scale(p, s.cd), s.cn)) * s.rd = s.rn * s.cd * s.cd

\* Sphere(center, radius) with radius 0.0f
SphereAt(p) == MkSphere(p, 1, 0, 1, TRUE, TRUE)

\* Sphere(p0, p1): midpoint center, radius half the distance
Sphere2(p0, p1) ==
    MkSphere(add(p0, p1), 2, lensq(sub(p0, p1)), 4,
             TRUE, IsSquare(lensq(sub(p0, p1))))

\* Sphere(p0, p1, p2) with the second test answering with the side p1 p2
Sphere3_WrongSide(p0, p1, p2) ==
    LET c == sub(p0, p1)  csq == lensq(c)
        a == sub(p1, p2)  asq == lensq(a)
        b == sub(p2, p0)  bsq == lensq(b)
    IN  IF csq + bsq <= asq THEN Sphere2(p1, p2)
        ELSE IF asq + bsq <= csq THEN Sphere2(p1, p2)
        ELSE IF asq + csq <= bsq THEN Sphere2(p2, p0)
        ELSE LET area2Sq == 2 * lensq(cross(a, c))
                 w0 == (0 - dot(c, b)) * asq
                 w1 == (0 - dot(c, a)) * bsq
                 w2 == (0 - dot(b, a)) * csq
             IN  MkSphere(add(add(scale(p0, w0), scale(p1, w1)), scale(p2, w2)),
                          area2Sq, asq * bsq * csq, 2 * area2Sq,
                          Dyadic(w0, area2Sq) /\ Dyadic(w1, area2Sq)
                              /\ Dyadic(w2, area2Sq),
                          DyadicRoot(asq * bsq * csq, 2 * area2Sq))

\* Sphere(p0, p1, p2), 3dtypes.cpp:7
Sphere3(p0, p1, p2) ==
    LET c == sub(p0, p1)  csq == lensq(c)
        a == sub(p1, p2)  asq == lensq(a)
        b == sub(p2, p0)  bsq == lensq(b)
    IN  IF csq + bsq <= asq THEN Sphere2(p1, p2)
        ELSE IF asq + bsq <= csq THEN Sphere2(p1, p0)
        ELSE IF asq + csq <= bsq THEN Sphere2(p2, p0)
        ELSE LET area2Sq == 2 * lensq(cross(a, c))
                 w0 == (0 - dot(c, b)) * asq
                 w1 == (0 - dot(c, a)) * bsq
                 w2 == (0 - dot(b, a)) * csq
             IN  MkSphere(add(add(scale(p0, w0), scale(p1, w1)), scale(p2, w2)),
                          area2Sq, asq * bsq * csq, 2 * area2Sq,
                          Dyadic(w0, area2Sq) /\ Dyadic(w1, area2Sq)
                              /\ Dyadic(w2, area2Sq),
                          DyadicRoot(asq * bsq * csq, 2 * area2Sq))

\* The innermost branch of Sphere(p0, p1, p2, p3), 3dtypes.cpp:52-67
Circumsphere4(p0, p1, p2, p3) ==
    LET a == sub(p1, p0)
        b == sub(p2, p0)
        c == sub(p3, p0)
        det == determinant(p1, p2, p3)
        o2 == add(add(scale(cross(a, b), lensq(c)), scale(cross(c, a), lensq(b))),
                  scale(cross(b, c), lensq(a)))
    IN  \* denominator = 0.5 / det; o = o2 * denominator; radius = len(o)
        MkSphere(add(scale(p0, 2 * det), o2), 2 * det, lensq(o2), 4 * det * det,
                 PowerOfTwo(Abs(det)),
                 PowerOfTwo(Abs(det)) /\ DyadicRoot(lensq(o2), 4 * det * det))

\* Sphere(p0, p1, p2, p3), 3dtypes.cpp:33: the spheres the constructor can
\* leave in *this.  rsq is computed once, from the first sphere, and is the
\* value every later test compares against.
Sphere4(p0, p1, p2, p3) ==
    LET s1 == Sphere3(p1, p2, p3)
        s2 == Sphere3(p0, p1, p3)
        s3 == Sphere3(p0, p2, p3)
        s4 == Sphere3(p1, p2, p3)
        to2 == MayExceed(s1, s1, p3)
        to3 == to2 /\ MayExceed(s2, s1, p2)
        to4 == to3 /\ MayExceed(s3, s1, p1)
        to5 == to4 /\ MayExceed(s4, s1, p0)
    IN  (IF MayNotExceed(s1, s1, p3) THEN {s1} ELSE {})
        \cup (IF to2 /\ MayNotExceed(s2, s1, p2) THEN {s2} ELSE {})
        \cup (IF to3 /\ MayNotExceed(s3, s1, p1) THEN {s3} ELSE {})
        \cup (IF to4 /\ MayNotExceed(s4, s1, p0) THEN {s4} ELSE {})
        \cup (IF to5 THEN {Circumsphere4(p0, p1, p2, p3)} ELSE {})

---------------------------------------------------------------------------
(* Input domains *)

Grid == (0..MaxCoord) \X (0..MaxCoord) \X (0..MaxCoord)

\* the corners of the unit cube
Cube == {0, 1} \X {0, 1} \X {0, 1}

SeqsUpTo(S, n) == UNION {[1..k -> S] : k \in 0..n}

---------------------------------------------------------------------------
(* The closed-form solvers called directly *)

\* The memory cell an out-of-range list index refers to, before any access.
Untouched == [p |-> <<0, 0, 0>>, next |-> -1, set |-> FALSE]

SolverOff == sargs = <<>> /\ sres = Undefined /\ spc = "off"

MesOff ==
    /\ points = <<>> /\ list = <<>> /\ alloc = FALSE /\ wild = Untouched
    /\ stack = <<>> /\ result = Undefined /\ status = "off"

ReducerOff ==
    /\ input = <<>> /\ buf = <<>> /\ numPoints = 0 /\ threshold = 0
    /\ ri = 0 /\ rpc = "off" /\ run = 0 /\ count1 = -1

NoLoop == [i |-> 0, j |-> 0, k |-> 0, at |-> "i", xAxis |-> <<0, 0, 0>>]

NoBox == [sent |-> FALSE, nan |-> FALSE, set |-> FALSE,
          axes |-> <<<<1, 0, 0>>, <<0, 1, 0>>, <<0, 0, 1>>>>,
          ext |-> <<0, 0, 0>>, cn |-> <<0, 0, 0>>, cd |-> 1]

OBoxOff ==
    /\ opts = <<>> /\ obox = NoBox /\ oloop = NoLoop /\ otried = <<>>
    /\ oreads = {} /\ opc = "off"

FrustumOff == fr = <<>> /\ ff = <<>> /\ fpc = "off"

SolverInit ==
    /\ sargs \in [1..3 -> Grid] \cup [1..4 -> Cube]
    /\ sres = Undefined
    /\ spc = "call"
    /\ MesOff /\ ReducerOff /\ OBoxOff /\ FrustumOff

Solve3 ==
    /\ spc = "call" /\ Len(sargs) = 3
    /\ sres' = Sphere3(sargs[1], sargs[2], sargs[3])
    /\ spc' = "done"
    /\ UNCHANGED <<sargs, mesVars, reducerVars, oboxVars, frustumVars>>

Solve4 ==
    /\ spc = "call" /\ Len(sargs) = 4
    /\ sres' \in Sphere4(sargs[1], sargs[2], sargs[3], sargs[4])
    /\ spc' = "done"
    /\ UNCHANGED <<sargs, mesVars, reducerVars, oboxVars, frustumVars>>

SolverNext == Solve3 \/ Solve4

SolverSpec == SolverInit /\ [][SolverNext]_vars


---------------------------------------------------------------------------
(* The minimal enclosing sphere engine, 3dtypes.cpp:75-146                  *)
(*                                                                          *)
(* list[k] = [p, next] is element k of the SingleLinkedPointList array.     *)
(* An index outside 0..n-1 (the end marker -1, read as 0xffffffff) refers   *)
(* to memory outside the array: the access either faults or hits a cell     *)
(* whose content is arbitrary.  That cell is `wild`; its content is chosen  *)
(* when it is first accessed and it keeps what is written to it.            *)

NumPoints == Len(points)

ValidIndex(k) == k \in 0..(NumPoints - 1)

Garbage == [p : Cube, next : -1..(NumPoints - 1), set : {TRUE}]

WildChoices == IF wild.set THEN {wild} ELSE Garbage

\* _points[k] with the out-of-range cell holding w
Elem(l, w, k) == IF k \in DOMAIN l THEN l[k] ELSE w

\* _points[k].next = v
WriteNext(l, w, k, v) ==
    IF k \in DOMAIN l THEN [l |-> [l EXCEPT ![k].next = v], w |-> w]
    ELSE [l |-> l, w |-> [w EXCEPT !.next = v]]

\* the index reached from k by following j next links
RECURSIVE Follow(_, _, _, _)
Follow(l, w, k, j) == IF j = 0 THEN k ELSE Elem(l, w, Follow(l, w, k, j - 1)).next

\* The locals of one invocation of minimalBoundingSphere.  scanned records the
\* indices the invocation has handled: its boundary set and the elements its
\* loop has passed.  No step of the code reads it.
Frame(first, n, boundarySet) ==
    [first |-> first, n |-> n, boundarySet |-> boundarySet,
     it |-> first, last |-> first, i |-> 0, nxt |-> -1,
     mbs |-> Undefined, pc |-> "switch", scanned |-> {}]

Top == stack[Len(stack)]

SetTop(f) == [stack EXCEPT ![Len(stack)] = f]

\* The constructor without its eiAssert: an empty buffer goes on to new[]
SphereCtor_Unchecked ==
    /\ status = "call"
    /\ list' = [k \in 0..(NumPoints - 1) |->
                    [p |-> points[k + 1],
                     next |-> IF k = NumPoints - 1 THEN -1 ELSE k + 1]]
    /\ alloc' = TRUE
    /\ stack' = <<Frame(0, NumPoints, 1)>>
    /\ status' = "running"
    /\ UNCHANGED <<points, wild, result, solverVars, reducerVars, oboxVars, frustumVars>>

\* Sphere::Sphere(const Vec3* _points, uint32 _numPoints), 3dtypes.cpp:134-144
\* up to the call of minimalBoundingSphere
SphereCtor ==
    /\ status = "call"
    /\ IF ~(NumPoints > 0)
       THEN \* eiAssert( _numPoints > 0, ... ) fails
            /\ status' = "assert_points"
            /\ UNCHANGED <<list, alloc, stack>>
       ELSE /\ list' = [k \in 0..(NumPoints - 1) |->
                           [p |-> points[k + 1],
                            next |-> IF k = NumPoints - 1 THEN -1 ELSE k + 1]]
            /\ alloc' = TRUE
            /\ stack' = <<Frame(0, NumPoints, 1)>>
            /\ status' = "running"
    /\ UNCHANGED <<points, wild, result, solverVars, reducerVars, oboxVars, frustumVars>>

\* The spheres the switch over _boundarySet can construct from the first
\* boundarySet list elements, 3dtypes.cpp:87-108
BaseSphere(l, w, first, boundarySet) ==
    LET v0 == Elem(l, w, Follow(l, w, first, 0)).p
        v1 == Elem(l, w, Follow(l, w, first, 1)).p
        v2 == Elem(l, w, Follow(l, w, first, 2)).p
        v3 == Elem(l, w, Follow(l, w, first, 3)).p
    IN  CASE boundarySet = 1 -> {SphereAt(v0)}
          [] boundarySet = 2 -> {Sphere2(v0, v1)}
          [] boundarySet = 3 -> {Sphere3(v0, v1, v2)}
          [] boundarySet = 4 -> Sphere4(v0, v1, v2, v3)
          [] OTHER -> {Undefined}

\* The switch and the loop that skips the boundary set read the elements
\* first, next(first), ... : boundarySet of them.
EnterTouchesWild(f) ==
    \E j \in 0..(f.boundarySet - 1) : ~ValidIndex(Follow(list, wild, f.first, j))

\* minimalBoundingSphere, 3dtypes.cpp:83-112: the assertion, the switch over
\* _boundarySet and the loop that positions it and last behind the boundary set.
Enter ==
    /\ status = "running" /\ Top.pc = "switch"
    /\ \E w \in (IF EnterTouchesWild(Top) THEN WildChoices ELSE {wild}) :
       \E s \in BaseSphere(list, w, Top.first, Top.boundarySet) :
         LET f == Top
             b == {Follow(list, w, f.first, j) : j \in 0..(f.boundarySet - 1)}
         IN  /\ wild' = w
             /\ stack' = SetTop(
                  IF f.boundarySet = 4
                  THEN [f EXCEPT !.mbs = s, !.pc = "ret", !.scanned = b]
                  ELSE [f EXCEPT !.mbs = s, !.pc = "scan", !.scanned = b,
                                 !.last = Follow(list, w, f.first, f.boundarySet - 1),
                                 !.it = Follow(list, w, f.first, f.boundarySet),
                                 !.i = f.boundarySet])
    /\ UNCHANGED <<points, list, alloc, result, status, solverVars, reducerVars, oboxVars, frustumVars>>

InScan == status = "running" /\ Top.pc = "scan" /\ Top.i < Top.n

\* 3dtypes.cpp:116-117: next is read from _points[it] before the assertion
\* that it is not the end marker.
ScanAssertFail ==
    /\ InScan /\ Top.it = -1
    /\ status' = "assert_iteration"
    /\ UNCHANGED <<points, list, alloc, wild, stack, result, solverVars, reducerVars, oboxVars, frustumVars>>

Violates(f) == MayExceed(f.mbs, f.mbs, Elem(list, wild, f.it).p)

\* 3dtypes.cpp:118, 127-128: the point is inside, advance
ScanKeep ==
    /\ InScan /\ Top.it # -1
    /\ \E w \in (IF ValidIndex(Top.it) THEN {wild} ELSE WildChoices) :
         LET f == Top
             e == Elem(list, w, f.it)
         IN  /\ MayNotExceed(f.mbs, f.mbs, e.p)
             /\ wild' = w
             /\ stack' = SetTop([f EXCEPT !.last = f.it, !.it = e.next, !.i = f.i + 1,
                                          !.scanned = f.scanned \cup {f.it}])
    /\ UNCHANGED <<points, list, alloc, result, status, solverVars, reducerVars, oboxVars, frustumVars>>

MoveTouchesWild(f) == ~ValidIndex(f.it) \/ ~ValidIndex(f.last)

\* The move to front with a recursive call that keeps _boundarySet
ScanMoveToFront_SameBoundary ==
    /\ InScan /\ Top.it # -1
    /\ \E w \in (IF MoveTouchesWild(Top) THEN WildChoices ELSE {wild}) :
         LET f == Top
             e == Elem(list, w, f.it)
             w1 == WriteNext(list, w, f.last, e.next)
             w2 == WriteNext(w1.l, w1.w, f.it, f.first)
         IN  /\ MayExceed(f.mbs, f.mbs, e.p)
             /\ list' = w2.l
             /\ wild' = w2.w
             /\ stack' = Append(SetTop([f EXCEPT !.first = f.it, !.nxt = e.next,
                                                 !.pc = "wait"]),
                                Frame(f.it, f.i, f.boundarySet))
    /\ UNCHANGED <<points, alloc, result, status, solverVars, reducerVars, oboxVars, frustumVars>>

\* 3dtypes.cpp:118-125: the point is outside: move it to the front and
\* call minimalBoundingSphere(_points, it, i, _boundarySet+1)
ScanMoveToFront ==
    /\ InScan /\ Top.it # -1
    /\ \E w \in (IF MoveTouchesWild(Top) THEN WildChoices ELSE {wild}) :
         LET f == Top
             e == Elem(list, w, f.it)
             w1 == WriteNext(list, w, f.last, e.next)
             w2 == WriteNext(w1.l, w1.w, f.it, f.first)
         IN  /\ MayExceed(f.mbs, f.mbs, e.p)
             /\ list' = w2.l
             /\ wild' = w2.w
             /\ stack' = Append(SetTop([f EXCEPT !.first = f.it, !.nxt = e.next,
                                                 !.pc = "wait"]),
                                Frame(f.it, f.i, f.boundarySet + 1))
    /\ UNCHANGED <<points, alloc, result, status, solverVars, reducerVars, oboxVars, frustumVars>>

Returning == status = "running" /\ (Top.pc = "ret" \/ (Top.pc = "scan" /\ Top.i >= Top.n))

\* The return to a loop that takes the next element without counting it: i
\* stays where it was
ReturnToCaller_NoAdvance ==
    /\ Returning /\ Len(stack) > 1
    /\ LET c == stack[Len(stack) - 1]
       IN  stack' = SubSeq(stack, 1, Len(stack) - 2) \o
                    <<[c EXCEPT !.mbs = Top.mbs, !.last = c.it, !.it = c.nxt,
                                !.pc = "scan",
                                !.scanned = c.scanned \cup {c.it}]>>
    /\ UNCHANGED <<points, list, alloc, wild, result, status, solverVars, reducerVars, oboxVars, frustumVars>>

\* return to the scan loop of the caller, 3dtypes.cpp:125-128
ReturnToCaller ==
    /\ Returning /\ Len(stack) > 1
    /\ LET c == stack[Len(stack) - 1]
       IN  stack' = SubSeq(stack, 1, Len(stack) - 2) \o
                    <<[c EXCEPT !.mbs = Top.mbs, !.last = c.it, !.it = c.nxt,
                                !.i = c.i + 1, !.pc = "scan",
                                !.scanned = c.scanned \cup {c.it}]>>
    /\ UNCHANGED <<points, list, alloc, wild, result, status, solverVars, reducerVars, oboxVars, frustumVars>>

\* return to the constructor, 3dtypes.cpp:144-145
Finish ==
    /\ Returning /\ Len(stack) = 1
    /\ result' = Top.mbs
    /\ alloc' = FALSE
    /\ stack' = <<>>
    /\ status' = "done"
    /\ UNCHANGED <<points, list, wild, solverVars, reducerVars, oboxVars, frustumVars>>

\* An access outside the array may fault instead of hitting the wild cell.
Fault ==
    /\ status = "running"
    /\ \/ Top.pc = "switch" /\ EnterTouchesWild(Top)
       \/ InScan /\ ~ValidIndex(Top.it)
       \/ InScan /\ Top.it # -1 /\ Violates(Top) /\ ~ValidIndex(Top.last)
    /\ status' = "fault"
    /\ UNCHANGED <<points, list, alloc, wild, stack, result, solverVars, reducerVars, oboxVars, frustumVars>>

\* the buffers of one point and of two points of the grid
SmallBuffers == {<<p>> : p \in Grid} \cup {<<p, q>> : p, q \in Grid}

\* Buffers long enough for the recursion to reach _boundarySet = 4: a call
\* with _boundarySet = b gets _n = i, one short of its caller's position, so
\* the outermost call needs two points more than the four it recurses on.
DeepPool == {<<0, 0, 0>>, <<1, 2, 2>>, <<2, 0, 2>>}

DeepPrefix == <<<<1, 2, 2>>, <<0, 0, 0>>, <<1, 2, 2>>, <<0, 0, 0>>>>

DeepBuffers == {DeepPrefix \o t : t \in [1..(MaxSpherePoints - 2) -> DeepPool]}

MesInit ==
    /\ points \in SeqsUpTo(Cube, MaxSpherePoints) \cup SmallBuffers \cup DeepBuffers
    /\ list = <<>> /\ alloc = FALSE /\ wild = Untouched
    /\ stack = <<>> /\ result = Undefined /\ status = "call"
    /\ SolverOff /\ ReducerOff /\ OBoxOff /\ FrustumOff

MesNext ==
    \/ SphereCtor
    \/ Enter
    \/ ScanAssertFail
    \/ ScanKeep
    \/ ScanMoveToFront
    \/ ReturnToCaller
    \/ Finish
    \/ Fault

MesSpec == MesInit /\ [][MesNext]_vars


---------------------------------------------------------------------------
(* The extreme point-set reducer convexSet, 3dtypes.cpp:320-397             *)
(*                                                                          *)
(* buf[k + 1] is _points[k].  A signed plane distance dot(q, p.n) + p.d is  *)
(* kept as num / sqrt(nsq) with the unnormalised normal: nsq = 0 is the     *)
(* plane of three colinear points, whose normalised normal is NaN.          *)
(*                                                                          *)
(* Rounding.  The source evaluates the distance in single precision with    *)
(* the normalised normal, so a point that lies in the plane over the        *)
(* rationals gets a residue that can be negative, zero or positive, and a   *)
(* distance that equals the threshold over the rationals can fall on either *)
(* side of it.  The field res is the sign of that residue.  The value is    *)
(* held exactly (res = 0) where every product and sum of the expression is  *)
(* exact: see ExactDist.                                                    *)

\* Plane(v0, v1, v2): the plane through three points
Plane(v0, v1, v2) ==
    [n |-> cross(sub(v1, v0), sub(v2, v0)), v |-> v0, on |-> {v0, v1, v2}]

\* a coordinate that is zero or a power of two: its product with a float is
\* exact
ExactFactor(k) == k = 0 \/ PowerOfTwo(Abs(k))

\* dot(q, p.n) + p.d has no rounding error: the normalised normal is a
\* signed unit axis, or it has two nonzero components of one magnitude a and
\* every coordinate involved is zero or a power of two, so that both
\* dot(q, p.n) and p.d are the single rounding of one multiple of a
ExactDist(pl, q) ==
    LET nz == {c \in 1..3 : pl.n[c] # 0}
    IN  \/ Cardinality(nz) = 1
        \/ /\ Cardinality(nz) = 2
           /\ \A c, e \in nz : pl.n[c] * pl.n[c] = pl.n[e] * pl.n[e]
           /\ \A w \in pl.on \cup {q} : \A c \in 1..3 : ExactFactor(w[c])

\* dot(q, p.n) + p.d: the values the expression can have
PlaneDist(pl, q) ==
    LET num == dot(sub(q, pl.v), pl.n)
        nsq == lensq(pl.n)
        ex  == ExactDist(pl, q)
    IN  {[num |-> num, nsq |-> nsq, exact |-> ex, res |-> r] :
            r \in IF num = 0 /\ nsq > 0 /\ ~ex THEN {-1, 0, 1} ELSE {0}}

\* float d = 0.0f
ZeroDist == [num |-> 0, nsq |-> 1, exact |-> TRUE, res |-> 0]

\* the sign of the float d
SignOf(d) == IF d.num # 0 THEN Sgn(d.num) ELSE d.res

\* a * b > 0.0f
ProductPositive(a, b) == a.nsq > 0 /\ b.nsq > 0 /\ SignOf(a) * SignOf(b) > 0

\* a * b < 0.0f
ProductNegative(a, b) == a.nsq > 0 /\ b.nsq > 0 /\ SignOf(a) * SignOf(b) < 0

\* abs(d) <= t, for t >= 0: the outcomes the comparison can have
AbsAtMost(d, t) ==
    IF d.nsq = 0 THEN {FALSE}
    ELSE IF d.num * d.num < t * t * d.nsq THEN {TRUE}
    ELSE IF d.num * d.num > t * t * d.nsq THEN {FALSE}
    ELSE IF d.num = 0 THEN {d.res = 0}
    ELSE IF d.exact THEN {TRUE}
    ELSE BOOLEAN

\* distance(q, Segment(a, b)) <= t, for t >= 0
SegmentDistAtMost(q, a, b, t) ==
    LET u == sub(b, a)
        w == sub(q, a)
        s == dot(w, u)
    IN  IF s <= 0 THEN lensq(w) <= t * t
        ELSE IF s >= lensq(u) THEN lensq(sub(q, b)) <= t * t
        ELSE lensq(w) * lensq(u) - s * s <= t * t * lensq(u)

\* the locals of one iteration of the outer loop of phase 2, 3dtypes.cpp:340-344
SepInit == [extrema |-> <<<<0, 0, 0>>, <<0, 0, 0>>, <<0, 0, 0>>>>,
            p |-> Plane(<<0, 0, 0>>, <<0, 0, 0>>, <<0, 0, 0>>),
            d |-> ZeroDist, ne |-> 0, maySeparate |-> TRUE]

\* the tests of the planes that put pj in the place of extrema[k - 1], from
\* k on, 3dtypes.cpp:373-387: the states they can end in
RECURSIVE SepReplace(_, _, _, _)
SepReplace(st, pi, pj, k) ==
    LET x  == [st.extrema EXCEPT ![k] = pj]
        pl == Plane(x[1], x[2], x[3])
    IN  UNION {LET s == [st EXCEPT !.p = pl, !.d = d]
               IN  IF ProductNegative(d, dj) THEN {[s EXCEPT !.extrema[k] = pj]}
                   ELSE IF k = 3 THEN {[s EXCEPT !.maySeparate = FALSE]}
                   ELSE SepReplace(s, pi, pj, k + 1)
               : d \in PlaneDist(pl, pi), dj \in PlaneDist(pl, st.extrema[k])}

\* the default case of the switch, 3dtypes.cpp:366-389: the states it can
\* end in
SepRepair(st, pi, pj) ==
    UNION {IF ProductPositive(dj, st.d) THEN SepReplace(st, pi, pj, 1) ELSE {st}
           : dj \in PlaneDist(st.p, pj)}

\* the body of the inner loop for one j # i, 3dtypes.cpp:347-389: the states
\* it can end in
SepStep(st, pi, pj, t) ==
    CASE st.ne = 0 -> {[st EXCEPT !.extrema[1] = pj, !.ne = 1]}
      [] st.ne = 1 ->
            {[st EXCEPT !.extrema[2] = pj, !.ne = 2,
                        !.maySeparate = ~SegmentDistAtMost(pi, st.extrema[1], pj, t)]}
      [] st.ne = 2 ->
            LET pl == Plane(st.extrema[1], st.extrema[2], pj)
            IN  UNION {{[st EXCEPT !.extrema[3] = pj, !.ne = 3, !.p = pl, !.d = d,
                                   !.maySeparate = ~within]
                        : within \in AbsAtMost(d, t)}
                       : d \in PlaneDist(pl, pi)}
      [] OTHER -> SepRepair(st, pi, pj)

\* the inner loop from index j on, 3dtypes.cpp:345: the states it can end in
RECURSIVE SepLoop(_, _, _, _, _, _)
SepLoop(st, b, n, i, j, t) ==
    IF ~(j < n /\ st.maySeparate) THEN {st}
    ELSE UNION {SepLoop(s, b, n, i, j + 1, t)
                : s \in IF i # j THEN SepStep(st, b[i + 1], b[j + 1], t) ELSE {st}}

\* maySeparate at the end of the inner loop for point i: the values it can
\* have
MaySeparate(b, n, i, t) == {s.maySeparate : s \in SepLoop(SepInit, b, n, i, 0, t)}

\* The inner loop of phase 1 without the j-- of the removal: the element
\* moved into slot j is not compared with i.
RECURSIVE DedupLoop_NoRecheck(_, _, _, _, _)
DedupLoop_NoRecheck(b, n, i, j, t) ==
    IF ~(j < n) THEN [b |-> b, n |-> n]
    ELSE IF lensq(sub(b[j + 1], b[i + 1])) <= t * t
         THEN DedupLoop_NoRecheck([b EXCEPT ![j + 1] = b[n]], n - 1, i, j + 1, t)
         ELSE DedupLoop_NoRecheck(b, n, i, j + 1, t)

\* the inner loop of phase 1 for a fixed i, from index j on, 3dtypes.cpp:327-332
RECURSIVE DedupLoop(_, _, _, _, _)
DedupLoop(b, n, i, j, t) ==
    IF ~(j < n) THEN [b |-> b, n |-> n]
    ELSE IF lensq(sub(b[j + 1], b[i + 1])) <= t * t
         THEN \* _points[j--] = _points[--_numPoints]; then ++j
              DedupLoop([b EXCEPT ![j + 1] = b[n]], n - 1, i, j, t)
         ELSE DedupLoop(b, n, i, j + 1, t)

\* one iteration of the outer loop of phase 1, 3dtypes.cpp:325-333
Phase1Step ==
    /\ rpc = "phase1" /\ ri < numPoints
    /\ LET r == DedupLoop(buf, numPoints, ri, ri + 1, threshold)
       IN  buf' = r.b /\ numPoints' = r.n
    /\ ri' = ri + 1
    /\ UNCHANGED <<input, threshold, rpc, run, count1, solverVars, mesVars, oboxVars, frustumVars>>

\* the outer loop of phase 1 ends, 3dtypes.cpp:325, 337
Phase1Exit ==
    /\ rpc = "phase1" /\ ~(ri < numPoints)
    /\ rpc' = "between"
    /\ ri' = 0
    /\ UNCHANGED <<input, buf, numPoints, threshold, run, count1, solverVars, mesVars, oboxVars, frustumVars>>

\* Phase 2 with a removal that copies the last point over slot i and leaves
\* _numPoints as it is
Phase2Step_KeepCount ==
    /\ rpc \in {"between", "phase2"} /\ ri < numPoints
    /\ \E maySeparate \in MaySeparate(buf, numPoints, ri, threshold) :
          IF ~maySeparate
          THEN /\ buf' = [buf EXCEPT ![ri + 1] = buf[numPoints]]
               /\ numPoints' = numPoints
               /\ ri' = ri + 1
          ELSE /\ ri' = ri + 1
               /\ UNCHANGED <<buf, numPoints>>
    /\ rpc' = "phase2"
    /\ UNCHANGED <<input, threshold, run, count1, solverVars, mesVars, oboxVars, frustumVars>>

\* one iteration of the outer loop of phase 2, 3dtypes.cpp:337-395
Phase2Step ==
    /\ rpc \in {"between", "phase2"} /\ ri < numPoints
    /\ \E maySeparate \in MaySeparate(buf, numPoints, ri, threshold) :
          IF ~maySeparate
          THEN \* _points[i--] = _points[--_numPoints]; then ++i
               /\ buf' = [buf EXCEPT ![ri + 1] = buf[numPoints]]
               /\ numPoints' = numPoints - 1
               /\ ri' = ri
          ELSE /\ ri' = ri + 1
               /\ UNCHANGED <<buf, numPoints>>
    /\ rpc' = "phase2"
    /\ UNCHANGED <<input, threshold, run, count1, solverVars, mesVars, oboxVars, frustumVars>>

\* return _numPoints, 3dtypes.cpp:396
ConvexSetReturn ==
    /\ rpc \in {"between", "phase2"} /\ ~(ri < numPoints)
    /\ rpc' = "done"
    /\ count1' = IF run = 1 THEN numPoints ELSE count1
    /\ UNCHANGED <<input, buf, numPoints, threshold, ri, run, solverVars, mesVars, oboxVars, frustumVars>>

\* the caller runs convexSet again on the buffer the first call left, with
\* the count it returned and the same threshold
ConvexSetAgain ==
    /\ rpc = "done" /\ run = 1
    /\ run' = 2
    /\ rpc' = "phase1"
    /\ ri' = 0
    /\ UNCHANGED <<input, buf, numPoints, threshold, count1, solverVars, mesVars, oboxVars, frustumVars>>

\* A regular tetrahedron with its centroid, the cube corner below it and a
\* point on one of the cube edges.
ReducerPool == {<<2, 2, 2>>, <<2, 0, 0>>, <<0, 2, 0>>, <<0, 0, 2>>,
                <<1, 1, 1>>, <<0, 0, 0>>, <<0, 0, 1>>}

Range(s) == {s[k] : k \in DOMAIN s}

\* the sequences of k pairwise different elements of S
RECURSIVE Arrangements(_, _)
Arrangements(S, k) ==
    IF k = 0 THEN {<<>>}
    ELSE UNION {{Append(s, x) : x \in S \ Range(s)} : s \in Arrangements(S, k - 1)}

\* the corners of a square
SquareCorners == {<<0, 0, 0>>, <<2, 0, 0>>, <<2, 2, 0>>, <<0, 2, 0>>}

\* Buffers with a point in a plane whose normalised normal is not held
\* exactly: the plane 3x + 2y + z = 0 through the last three points of the
\* first, planes with the normal (0, 3, 1) in the other two.
SkewBuffers ==
    {<<<<1, -1, -1>>, <<-2, 2, 2>>, <<-1, 2, -1>>, <<-1, 1, 1>>>>,
     <<<<1, -1, -2>>, <<-1, -1, 0>>, <<2, -1, 0>>, <<1, 2, -1>>, <<0, 2, -1>>>>,
     <<<<1, 0, -1>>, <<2, 2, -2>>, <<0, -1, 2>>, <<-2, 0, -1>>, <<2, -1, 2>>>>}

ReducerInputs ==
    SeqsUpTo(ReducerPool, MaxRepeatPoints)
        \cup UNION {Arrangements(ReducerPool, k) : k \in 0..MaxSetPoints}
        \cup UNION {Arrangements(SquareCorners, k) : k \in 0..MaxSetPoints}
        \cup SkewBuffers

ReducerInit ==
    /\ input \in ReducerInputs
    /\ buf = input
    /\ numPoints = Len(input)
    /\ threshold \in 0..MaxThreshold
    /\ ri = 0 /\ rpc = "phase1" /\ run = 1 /\ count1 = -1
    /\ SolverOff /\ MesOff /\ OBoxOff /\ FrustumOff

ReducerNext ==
    \/ Phase1Step
    \/ Phase1Exit
    \/ Phase2Step
    \/ ConvexSetReturn
    \/ ConvexSetAgain

ReducerSpec == ReducerInit /\ [][ReducerNext]_vars

---------------------------------------------------------------------------
(* The oriented box fitter, 3dtypes.cpp:221-282                             *)
(*                                                                          *)
(* A unit vector is kept as the shortest integer vector of its direction,   *)
(* and a length along it as the integer that is the length times the norm   *)
(* of that vector.  A box is                                                *)
(*   sent  its sides hold the initial 1e30f                                 *)
(*   nan   its orientation is NaN                                           *)
(*   set   center and orientation have been assigned                        *)
(*   axes  the three axes of the local frame, in world coordinates          *)
(*   ext   sides[a] = ext[a] / |axes[a]|                                    *)
(*   cn,cd center = cn / cd                                                 *)

\* normalize(v): the direction of v
Primitive(v) ==
    LET g == GCD(GCD(Abs(v[1]), Abs(v[2])), Abs(v[3]))
    IN  IF g = 0 THEN v ELSE <<v[1] \div g, v[2] \div g, v[3] \div g>>

\* an orientation with a NaN component
NaNFrame == [nan |-> TRUE, x |-> <<0, 0, 0>>, y |-> <<0, 0, 0>>, z |-> <<0, 0, 0>>]

\* Quaternion(xAxis, yAxis, cross(xAxis, yAxis)): the rotation into the frame
\* with these axes
AxesFrame(x, y) ==
    [nan |-> FALSE, x |-> Primitive(x), y |-> Primitive(y), z |-> Primitive(cross(x, y))]

UnitVectors == {<<1, 0, 0>>, <<0, 1, 0>>, <<0, 0, 1>>}

\* Quaternion(xAxis, Vec3(1, 0, 0)): a rotation that takes xAxis to the first
\* local axis; the two other axes are some pair perpendicular to it
FromToFrames(x) ==
    IF x = <<0, 0, 0>> THEN {NaNFrame}
    ELSE {AxesFrame(x, cross(x, e)) : e \in {u \in UnitVectors : cross(x, u) # <<0, 0, 0>>}}

\* testOrientation of the triple with xAxis = normalize(pi - pj), 3dtypes.cpp:264-273.
\* normalize of the zero vector is NaN, and then l is NaN and l < 1e-6f false.
\* For the points of the model l is 0 or at least 1/2.
TestOrientations(xAxis, pi, pk) ==
    LET yAxis == cross(xAxis, sub(pi, pk))
    IN  IF xAxis = <<0, 0, 0>> THEN {NaNFrame}
        ELSE IF yAxis = <<0, 0, 0>> THEN FromToFrames(xAxis)
        ELSE {AxesFrame(xAxis, yAxis)}

MinOf(S) == CHOOSE x \in S : \A y \in S : x <= y

MaxOf(S) == CHOOSE x \in S : \A y \in S : x >= y

\* OBox(orientation, points, n) for n > 0, 3dtypes.cpp:221-241: the bounds of
\* the rotated points, the center rotated back and the sides
FitBox(f, pts) ==
    IF f.nan
    THEN [NoBox EXCEPT !.nan = TRUE, !.set = TRUE]
    ELSE LET ax == <<f.x, f.y, f.z>>
             co(a) == {dot(pts[m], ax[a]) : m \in DOMAIN pts}
             lo == [a \in 1..3 |-> MinOf(co(a))]
             hi == [a \in 1..3 |-> MaxOf(co(a))]
             nsq == [a \in 1..3 |-> lensq(ax[a])]
             d == 2 * nsq[1] * nsq[2] * nsq[3]
             part(a) == scale(ax[a], (lo[a] + hi[a]) * (d \div (2 * nsq[a])))
         IN  [sent |-> FALSE, nan |-> FALSE, set |-> TRUE, axes |-> ax,
              ext |-> <<hi[1] - lo[1], hi[2] - lo[2], hi[3] - lo[3]>>,
              cn |-> add(add(part(1), part(2)), part(3)), cd |-> d]

\* the square of prod(sides) as a fraction
VolumeSq(b) ==
    [num |-> (b.ext[1] * b.ext[2] * b.ext[3]) * (b.ext[1] * b.ext[2] * b.ext[3]),
     den |-> lensq(b.axes[1]) * lensq(b.axes[2]) * lensq(b.axes[3])]

\* prod(c.sides) < prod(b.sides) can be true, 3dtypes.cpp:276.  A NaN is not
\* less than anything and every finite product is less than that of the
\* initial sides; products that are equal over the rationals can come out
\* either way.
MayBeSmaller(c, b) ==
    /\ ~c.nan
    /\ \/ b.sent
       \/ VolumeSq(c).num * VolumeSq(b).den <= VolumeSq(b).num * VolumeSq(c).den

\* prod(c.sides) < prod(b.sides) can be false
MayNotBeSmaller(c, b) ==
    \/ c.nan
    \/ /\ ~b.sent
       /\ VolumeSq(c).num * VolumeSq(b).den >= VolumeSq(b).num * VolumeSq(c).den

\* i < _numPoints - c in uint32: for _numPoints < c the right side wraps to
\* 2^32 + _numPoints - c, above every index the model reaches
BelowCount(i, n, c) == IF n >= c THEN i < n - c ELSE TRUE

\* sides = Vec3(0.0f); center = *_points; orientation = qidentity()
PointBox(p) == [NoBox EXCEPT !.set = TRUE, !.cn = p]

\* the box of two points, 3dtypes.cpp:251-255: connection / sides.x is 0/0
\* for two equal points
SegmentBoxes(p0, p1) ==
    LET connection == sub(p1, p0)
        g == GCD(GCD(Abs(connection[1]), Abs(connection[2])), Abs(connection[3]))
    IN  {[sent |-> FALSE, nan |-> f.nan, set |-> TRUE,
          axes |-> <<f.x, f.y, f.z>>,
          ext |-> <<g * lensq(Primitive(connection)), 0, 0>>,
          cn |-> add(scale(p0, 2), connection), cd |-> 2] :
            f \in FromToFrames(connection)}

\* sides = Vec3(1e30f), center and orientation not assigned
SentinelBox == [NoBox EXCEPT !.sent = TRUE]

\* OBox::OBox(points, n) up to the loops, 3dtypes.cpp:244-258
OBoxCall ==
    /\ opc = "call"
    /\ IF Len(opts) = 1
       THEN /\ obox' = PointBox(opts[1])
            /\ oreads' = {0}
            /\ opc' = "done"
       ELSE IF Len(opts) = 2
       THEN /\ obox' \in SegmentBoxes(opts[1], opts[2])
            /\ oreads' = {0, 1}
            /\ opc' = "done"
       ELSE /\ obox' = SentinelBox
            /\ oreads' = {}
            /\ opc' = "search"
    /\ oloop' = NoLoop
    /\ UNCHANGED <<opts, otried, solverVars, mesVars, reducerVars, frustumVars>>

\* the test of the loop over i, 3dtypes.cpp:260, and the return
OBoxOuter ==
    /\ opc = "search" /\ oloop.at = "i"
    /\ IF BelowCount(oloop.i, Len(opts), 2)
       THEN oloop' = [oloop EXCEPT !.j = oloop.i + 1, !.at = "j"] /\ opc' = opc
       ELSE oloop' = oloop /\ opc' = "done"
    /\ UNCHANGED <<opts, obox, otried, oreads, solverVars, mesVars, reducerVars,
                   frustumVars>>

InBuffer(m) == m \in 0..(Len(opts) - 1)

\* The loop over k without its k = j+1: it starts at j
OBoxAxis_FromJ ==
    /\ opc = "search" /\ oloop.at = "j"
    /\ BelowCount(oloop.j, Len(opts), 1)
    /\ InBuffer(oloop.i) /\ InBuffer(oloop.j)
    /\ oloop' = [oloop EXCEPT
                    !.xAxis = Primitive(sub(opts[oloop.i + 1], opts[oloop.j + 1])),
                    !.k = oloop.j, !.at = "k"]
    /\ oreads' = oreads \cup {oloop.i, oloop.j}
    /\ UNCHANGED <<opts, obox, otried, opc, solverVars, mesVars, reducerVars,
                   frustumVars>>

\* The loop over j starts an iteration, 3dtypes.cpp:262-264: xAxis from
\* _points[i] and _points[j].  An index outside the buffer reads whatever is
\* there, as long as the read does not fault.
OBoxAxis ==
    /\ opc = "search" /\ oloop.at = "j"
    /\ BelowCount(oloop.j, Len(opts), 1)
    /\ IF InBuffer(oloop.i) /\ InBuffer(oloop.j)
       THEN oloop' = [oloop EXCEPT
                         !.xAxis = Primitive(sub(opts[oloop.i + 1], opts[oloop.j + 1])),
                         !.k = oloop.j + 1, !.at = "k"]
       ELSE /\ oloop.j < MaxWildReads
            /\ \E x \in UnitVectors \cup {<<0, 0, 0>>} :
                  oloop' = [oloop EXCEPT !.xAxis = x, !.k = oloop.j + 1, !.at = "k"]
    /\ oreads' = oreads \cup {oloop.i, oloop.j}
    /\ UNCHANGED <<opts, obox, otried, opc, solverVars, mesVars, reducerVars,
                   frustumVars>>

\* the read of OBoxAxis outside the buffer faults
OBoxFault ==
    /\ opc = "search" /\ oloop.at = "j"
    /\ BelowCount(oloop.j, Len(opts), 1)
    /\ ~(InBuffer(oloop.i) /\ InBuffer(oloop.j))
    /\ opc' = "fault"
    /\ UNCHANGED <<opts, obox, oloop, otried, oreads, solverVars, mesVars,
                   reducerVars, frustumVars>>

\* the loop over j ends, 3dtypes.cpp:260-262: ++i
OBoxEndJ ==
    /\ opc = "search" /\ oloop.at = "j"
    /\ ~BelowCount(oloop.j, Len(opts), 1)
    /\ oloop' = [oloop EXCEPT !.i = oloop.i + 1, !.at = "i"]
    /\ UNCHANGED <<opts, obox, otried, oreads, opc, solverVars, mesVars,
                   reducerVars, frustumVars>>

\* the candidate of the triple i, j, k as otried records it
Tried(f) == [i |-> oloop.i, j |-> oloop.j, k |-> oloop.k, frame |-> f]

\* one iteration of the loop over k, 3dtypes.cpp:265-277: the candidate frame
\* of the triple, its box, and the comparison of the products of the sides
OBoxTry ==
    /\ opc = "search" /\ oloop.at = "k"
    /\ oloop.k < Len(opts)
    /\ \E f \in TestOrientations(oloop.xAxis, opts[oloop.i + 1], opts[oloop.k + 1]) :
         LET currentFit == FitBox(f, opts)
         IN  /\ otried' = Append(otried, Tried(f))
             /\ \/ MayBeSmaller(currentFit, obox) /\ obox' = currentFit
                \/ MayNotBeSmaller(currentFit, obox) /\ obox' = obox
    /\ oloop' = [oloop EXCEPT !.k = oloop.k + 1]
    /\ oreads' = oreads \cup (0..(Len(opts) - 1))
    /\ UNCHANGED <<opts, opc, solverVars, mesVars, reducerVars, frustumVars>>

\* the loop over k ends, 3dtypes.cpp:262-265: ++j
OBoxEndK ==
    /\ opc = "search" /\ oloop.at = "k"
    /\ ~(oloop.k < Len(opts))
    /\ oloop' = [oloop EXCEPT !.j = oloop.j + 1, !.at = "j"]
    /\ UNCHANGED <<opts, obox, otried, oreads, opc, solverVars, mesVars,
                   reducerVars, frustumVars>>

\* Five corners of the unit cube: four that span it and one more in the
\* plane of three of them.
BoxPool == {<<0, 0, 0>>, <<1, 0, 0>>, <<0, 1, 0>>, <<0, 0, 1>>, <<1, 1, 0>>}

OBoxInit ==
    /\ opts \in SeqsUpTo(BoxPool, MaxBoxPoints)
    /\ obox = NoBox /\ oloop = NoLoop /\ otried = <<>> /\ oreads = {}
    /\ opc = "call"
    /\ SolverOff /\ MesOff /\ ReducerOff /\ FrustumOff

OBoxNext ==
    \/ OBoxCall
    \/ OBoxOuter
    \/ OBoxAxis
    \/ OBoxFault
    \/ OBoxEndJ
    \/ OBoxTry
    \/ OBoxEndK

OBoxSpec == OBoxInit /\ [][OBoxNext]_vars

---------------------------------------------------------------------------
(* The fast frustum builder, 3dtypes.cpp:285-317                            *)
(*                                                                          *)
(* A vertex is the point num / den.  A plane holds the direction n of its   *)
(* normal as the shortest integer vector and its d as dn / (dd * |n|), so   *)
(* that |n| times the signed distance of a point q is dot(n, q) + dn / dd.  *)

\* the point v / d
Point(v, d) == [num |-> v, den |-> d]

\* a + b for two points
PointSum(a, b) ==
    Point(add(scale(a.num, b.den), scale(b.num, a.den)), a.den * b.den)

\* Plane(normalize(c), support): the normal is NaN for c = 0
PlaneAt(c, support) ==
    [nan |-> c = <<0, 0, 0>>, n |-> Primitive(c),
     dn |-> -dot(Primitive(c), support.num), dd |-> support.den]

\* DOP(normal, support0, support1)
DopAt(normal, support0, support1) ==
    [n |-> normal, d0 |-> -dot(normal, support0), d1 |-> -dot(normal, support1)]

\* the sign of dot(q, p.n) + p.d
PlaneSide(p, q) == Sgn(dot(p.n, q.num) * p.dd + p.dn * q.den)

\* v - apex, up to a positive factor
FromApex(f, v) == sub(v.num, scale(f.apex, v.den))

\* cross(_frustum.up, _frustum.direction)
FrustumXAxis(f) == cross(f.up, f.direction)

\* the eight vertices, 3dtypes.cpp:291-308; vertices[m + 1] is v[m]
FrustumVertices(f) ==
    LET far == add(scale(f.direction, f.f), f.apex)
        near == add(scale(f.direction, f.n), f.apex)
        bottom == scale(f.up, f.b)
        top == scale(f.up, f.t)
        left == scale(FrustumXAxis(f), f.l)
        right == scale(FrustumXAxis(f), f.r)
        \* near + c * fton with fton = n / f
        nearv(c) == PointSum(Point(near, 1), Point(scale(c, f.n), f.f))
        farv(c) == Point(add(far, c), 1)
    IN  << nearv(add(left, bottom)), nearv(add(left, top)),
           nearv(add(right, bottom)), nearv(add(right, top)),
           farv(add(left, bottom)), farv(add(left, top)),
           farv(add(right, bottom)), farv(add(right, top)) >>

\* nf = DOP(direction, near, far)
NearFarPlanes(f) ==
    DopAt(f.direction, add(scale(f.direction, f.n), f.apex),
                       add(scale(f.direction, f.f), f.apex))

\* l = Plane(normalize(cross(up, v[4] - apex)), v[4])
LeftPlane(f, v) == PlaneAt(cross(f.up, FromApex(f, v[5])), v[5])

\* The right plane with the factors of the left one: cross(up, v[7] - apex)
RightPlane_UpFirst(f, v) == PlaneAt(cross(f.up, FromApex(f, v[8])), v[8])

\* r = Plane(normalize(cross(v[7] - apex, up)), v[7])
RightPlane(f, v) == PlaneAt(cross(FromApex(f, v[8]), f.up), v[8])

\* b = Plane(normalize(cross(v[4] - apex, xAxis)), v[4])
BottomPlane(f, v) == PlaneAt(cross(FromApex(f, v[5]), FrustumXAxis(f)), v[5])

\* t = Plane(normalize(cross(xAxis, v[7] - apex)), v[7])
TopPlane(f, v) == PlaneAt(cross(FrustumXAxis(f), FromApex(f, v[8])), v[8])

\* FastFrustum::FastFrustum(const Frustum&)
FrustumBuild ==
    /\ fpc = "call"
    /\ LET v == FrustumVertices(fr)
       IN  ff' = [vertices |-> v, nf |-> NearFarPlanes(fr),
                  l |-> LeftPlane(fr, v), r |-> RightPlane(fr, v),
                  b |-> BottomPlane(fr, v), t |-> TopPlane(fr, v)]
    /\ fpc' = "done"
    /\ UNCHANGED <<fr, solverVars, mesVars, reducerVars, oboxVars>>

\* the unit vectors along the coordinate axes, both ways
SignedUnitVectors == UnitVectors \cup {scale(u, -1) : u \in UnitVectors}

Apexes == {<<0, 0, 0>>, <<1, -2, 3>>}

\* the frusta with l < r, b < t, 0 <= n < f and orthonormal direction and up
Frusta ==
    {f \in [l : -MaxExtent..MaxExtent, r : -MaxExtent..MaxExtent,
            b : -MaxExtent..MaxExtent, t : -MaxExtent..MaxExtent,
            n : 0..MaxDepth, f : 1..MaxDepth,
            apex : Apexes, direction : SignedUnitVectors, up : SignedUnitVectors] :
        /\ f.l < f.r /\ f.b < f.t /\ f.n < f.f
        /\ dot(f.up, f.direction) = 0}

FrustumInit ==
    /\ fr \in Frusta
    /\ ff = <<>>
    /\ fpc = "call"
    /\ SolverOff /\ MesOff /\ ReducerOff /\ OBoxOff

FrustumNext == FrustumBuild

FrustumSpec == FrustumInit /\ [][FrustumNext]_vars

---------------------------------------------------------------------------
(* Properties of the closed-form solvers, checked under SolverSpec          *)

Side(x, y) == lensq(sub(x, y))

\* s has its center at the midpoint of a and b and radius half their distance
IsDiametral(s, a, b) ==
    /\ IsDefined(s)
    /\ scale(s.cn, 2) = scale(add(a, b), s.cd)
    /\ 4 * s.rn = s.rd * lensq(sub(a, b))

SolverDone(n) == spc = "done" /\ Len(sargs) = n

\* C5.  Sphere(p0, p1, p2): whenever the squared length of one side is at
\* least the sum of the squared lengths of the other two, the result is the
\* 2-point sphere of the end points of that side and it contains the third
\* point, whichever of p0, p1, p2 the three points are assigned to.
C5_LongestSide ==
    SolverDone(3) =>
        \A i, j, k \in 1..3 :
            ( /\ {i, j, k} = 1..3
              /\ Side(sargs[i], sargs[j])
                    >= Side(sargs[i], sargs[k]) + Side(sargs[j], sargs[k]) )
            => /\ IsDiametral(sres, sargs[i], sargs[j])
               /\ Contains(sres, sargs[k])

\* An obtuse triangle (three different points, not on a line) whose longest
\* side is p2 p0, the side the last of the three tests answers for.
C5_Witness ==
    /\ SolverDone(3)
    /\ cross(sub(sargs[2], sargs[1]), sub(sargs[3], sargs[1])) # <<0, 0, 0>>
    /\ Side(sargs[3], sargs[1]) > Side(sargs[1], sargs[2]) + Side(sargs[2], sargs[3])
    /\ IsDiametral(sres, sargs[3], sargs[1])
    /\ Contains(sres, sargs[2])

\* The triples of Sphere(p0, p1, p2, p3) in the order the constructor builds
\* them, each with the point it leaves out.
Triples ==
    << [t |-> <<2, 3, 4>>, x |-> 1], [t |-> <<1, 2, 4>>, x |-> 3],
       [t |-> <<1, 3, 4>>, x |-> 2], [t |-> <<2, 3, 4>>, x |-> 1] >>

TripleSphere(k) ==
    Sphere3(sargs[Triples[k].t[1]], sargs[Triples[k].t[2]], sargs[Triples[k].t[3]])

\* the sphere of triple k contains the point the triple leaves out
TripleFits(k) == Contains(TripleSphere(k), sargs[Triples[k].x])

\* C4.  Sphere(p0, p1, p2, p3) returns the 3-point sphere of the first
\* triple, in the constructor's order, whose sphere contains the point the
\* triple leaves out, and the sphere it returns contains all four points.
C4_FirstFittingTriple ==
    SolverDone(4) =>
        /\ \A k \in 1..4 :
              (TripleFits(k) /\ \A m \in 1..(k - 1) : ~TripleFits(m))
              => /\ sres.cn = TripleSphere(k).cn /\ sres.cd = TripleSphere(k).cd
                 /\ sres.rn = TripleSphere(k).rn /\ sres.rd = TripleSphere(k).rd
        /\ \A k \in 1..4 : Contains(sres, sargs[k])

---------------------------------------------------------------------------
(* Properties of the minimal enclosing sphere, checked under MesSpec        *)

EnclosesAll(s, pts) == \A k \in DOMAIN pts : Contains(s, pts[k])

\* the radius of a is strictly smaller than the radius of b
SmallerRadius(a, b) == IsDefined(a) /\ IsDefined(b) /\ a.rn * b.rd < b.rn * a.rd

\* the sphere through all corners of the unit cube
CubeSphere == MkSphere(<<1, 1, 1>>, 2, 3, 4, TRUE, FALSE)

\* Spheres among which the minimal enclosing sphere of pts is found, for up
\* to three points anywhere and for any number of corners of the unit cube:
\* it is determined by 1, 2 or 3 of the points, or it passes through four
\* corners that are not in a plane and is the sphere of the cube.
CandidateSpheres(pts) ==
    {SphereAt(pts[i]) : i \in DOMAIN pts}
        \cup {Sphere2(pts[i], pts[j]) : i, j \in DOMAIN pts}
        \cup {Sphere3(pts[i], pts[j], pts[k]) : i, j, k \in DOMAIN pts}
        \cup {CubeSphere}

\* the input points on the boundary of s
BoundaryPoints(s, pts) == {pts[k] : k \in {m \in DOMAIN pts : OnBoundary(s, pts[m])}}

\* C1.  The sphere Sphere(points, n) returns for n >= 1 contains every point
\* of the buffer.
C1_Containment ==
    status = "done" => EnclosesAll(result, points)

\* C2.  The sphere Sphere(points, n) returns for n >= 1 is the minimal
\* enclosing sphere: it contains every point, no sphere of smaller radius
\* does, and 1 to 4 of the points lie on its boundary, at least 2 of them if
\* the buffer holds two different points.
C2_Minimality ==
    status = "done" =>
        /\ EnclosesAll(result, points)
        /\ ~\E c \in CandidateSpheres(points) :
               EnclosesAll(c, points) /\ SmallerRadius(c, result)
        /\ Cardinality(BoundaryPoints(result, points)) \in 1..4
        /\ Cardinality(Range(points)) >= 2
              => Cardinality(BoundaryPoints(result, points)) >= 2

\* C3.  For a buffer of one point p the result is center p, radius 0; for a
\* buffer of two points the result has its center at their midpoint and
\* radius half their distance, in either order of the two.
C3_SmallCases ==
    status = "done" =>
        /\ NumPoints = 1 =>
              /\ IsDefined(result)
              /\ result.cn = scale(points[1], result.cd)
              /\ result.rn = 0
        /\ NumPoints = 2 => IsDiametral(result, points[1], points[2])

\* the buffer {(0,0,0), (2,0,0)} has given center (1,0,0), radius 1
C3_Witness ==
    /\ status = "done"
    /\ points = <<<<0, 0, 0>>, <<2, 0, 0>>>>
    /\ result.cn = <<1, 0, 0>> /\ result.cd = 1
    /\ result.rn = 1 /\ result.rd = 1

\* C6.  Sphere(points, 0) fails the assertion on _numPoints: the list is
\* never allocated or written, minimalBoundingSphere is never entered and no
\* sphere is assigned.
C6_EmptyBufferAsserts ==
    NumPoints = 0 =>
        /\ status \in {"call", "assert_points"}
        /\ alloc = FALSE /\ list = <<>> /\ stack = <<>>
        /\ wild = Untouched /\ result = Undefined

\* the call with the empty buffer has failed its assertion
C6_Witness ==
    /\ NumPoints = 0 /\ status = "assert_points"
    /\ alloc = FALSE /\ result = Undefined

---------------------------------------------------------------------------
(* Properties of convexSet, checked under ReducerSpec                       *)

\* six times the signed volume of the tetrahedron a b c d
Orient(a, b, c, d) == determinant(sub(b, a), sub(c, a), sub(d, a))

\* q is in the interior of the tetrahedron a b c d
StrictlyInsideTet(q, a, b, c, d) ==
    LET o == Sgn(Orient(a, b, c, d))
    IN  /\ o # 0
        /\ Sgn(Orient(q, b, c, d)) = o /\ Sgn(Orient(a, q, c, d)) = o
        /\ Sgn(Orient(a, b, q, d)) = o /\ Sgn(Orient(a, b, c, q)) = o

\* q is in the tetrahedron a b c d (which is not flat) or on its boundary
InTet(q, a, b, c, d) ==
    LET o == Sgn(Orient(a, b, c, d))
    IN  /\ o # 0
        /\ Sgn(Orient(q, b, c, d)) * o >= 0 /\ Sgn(Orient(a, q, c, d)) * o >= 0
        /\ Sgn(Orient(a, b, q, d)) * o >= 0 /\ Sgn(Orient(a, b, c, q)) * o >= 0

\* q is in the triangle a b c (which is not flat) or on its boundary
InTriangle(q, a, b, c) ==
    LET nrm == cross(sub(b, a), sub(c, a))
    IN  /\ nrm # <<0, 0, 0>>
        /\ dot(sub(q, a), nrm) = 0
        /\ dot(cross(sub(b, a), sub(q, a)), nrm) >= 0
        /\ dot(cross(sub(c, b), sub(q, b)), nrm) >= 0
        /\ dot(cross(sub(a, c), sub(q, c)), nrm) >= 0

\* q is on the segment a b between two different points
OnSegment(q, a, b) ==
    /\ a # b
    /\ cross(sub(q, a), sub(b, a)) = <<0, 0, 0>>
    /\ dot(sub(q, a), sub(b, a)) >= 0
    /\ dot(sub(q, a), sub(b, a)) <= lensq(sub(b, a))

\* q is in the convex hull of the points of b at the indices in I: it is
\* one of them or in the hull of two, three or four of them
InHull(q, b, I) ==
    \/ \E i \in I : q = b[i]
    \/ \E i \in I : \E j \in I : i < j /\ OnSegment(q, b[i], b[j])
    \/ \E i \in I : \E j \in I : i < j /\ \E k \in I :
           j < k /\ InTriangle(q, b[i], b[j], b[k])
    \/ \E i \in I : \E j \in I : i < j /\ \E k \in I : j < k /\ \E m \in I :
           k < m /\ InTet(q, b[i], b[j], b[k], b[m])

\* the points of b at the indices in I
PointsAt(b, I) == {b[k] : k \in I}

\* input point x lies strictly inside a tetrahedron of four other input points
Interior(x) ==
    LET I == DOMAIN input \ {x}
    IN  \E i \in I : \E j \in I : i < j /\ \E k \in I : j < k /\ \E m \in I :
           k < m /\ StrictlyInsideTet(input[x], input[i], input[j], input[k], input[m])

\* every input point is a vertex of the convex hull of the input
AllExtreme ==
    \A x \in DOMAIN input : ~InHull(input[x], input, DOMAIN input \ {x})

\* index pairs i < j of b, among the first n, within distance t of each other
ClosePairs(b, n, t) ==
    {pr \in (1..n) \X (1..n) :
        pr[1] < pr[2] /\ lensq(sub(b[pr[1]], b[pr[2]])) <= t * t}

\* the points convexSet returned: the first numPoints points of the buffer
Survivors == PointsAt(buf, 1..numPoints)

Returned(r) == rpc = "done" /\ run = r

\* C7.  An input point strictly inside the convex hull of four other input
\* points is not among the points convexSet returns, whatever the order of
\* the buffer.
C7_InteriorRemoved ==
    Returned(1) => \A k \in DOMAIN input : Interior(k) => input[k] \notin Survivors

\* C8.  If every input point is a vertex of the convex hull of the input and
\* all pairwise distances exceed the threshold, convexSet returns n and
\* removes nothing, whatever the order of the buffer.
C8_ExtremeSetFixed ==
    (Returned(1) /\ AllExtreme /\ ClosePairs(input, Len(input), threshold) = {})
        => /\ numPoints = Len(input)
           /\ Survivors = Range(input)

\* C9.  convexSet run again on the buffer the first call left, with the
\* count it returned and the same threshold, returns the same count.
C9_Idempotent ==
    Returned(2) => numPoints = count1

\* C10.  After the duplicate loop no two points of the surviving prefix are
\* within the threshold of each other, and an input with exactly one pair of
\* points within the threshold keeps exactly n - 1 points, wherever the two
\* points are in the buffer.
C10_Phase1Dedup ==
    rpc = "between" =>
        /\ ClosePairs(buf, numPoints, threshold) = {}
        /\ (run = 1 /\ Cardinality(ClosePairs(input, Len(input), threshold)) = 1)
              => numPoints = Len(input) - 1

\* phase 1 of the first call has removed one of two different points that
\* are within the threshold, neither of them the last of the buffer
C10_Witness ==
    /\ rpc = "between" /\ run = 1 /\ threshold = 1
    /\ Len(input) >= 4
    /\ ClosePairs(input, Len(input), threshold) = {<<1, 2>>}
    /\ numPoints = Len(input) - 1
    /\ ClosePairs(buf, numPoints, threshold) = {}

---------------------------------------------------------------------------
(* Properties of the list and the recursion of minimalBoundingSphere        *)

\* following the next links from first visits every index of the buffer
\* exactly once and then reaches the end marker -1
ListIntact(first) ==
    /\ \A j \in 0..(NumPoints - 1) : ValidIndex(Follow(list, wild, first, j))
    /\ \A j, k \in 0..(NumPoints - 1) :
           j # k => Follow(list, wild, first, j) # Follow(list, wild, first, k)
    /\ Follow(list, wild, first, NumPoints) = -1

\* C16.  While Sphere(points, n) runs, n >= 1, the list that starts at the
\* head held by the executing invocation holds each of the n indices exactly
\* once and ends with -1: after the constructor built it, after every move to
\* front and after every return from a recursive call, at every depth.
C16_ListIntegrity ==
    status = "running" => ListIntact(Top.first)

\* C17.  In every iteration of the scan loop the cursor it is an index of the
\* buffer, the assertion on it never fails, the switch reads only elements of
\* the buffer, and so no access outside the buffer happens.
C17_CursorValid ==
    /\ status \notin {"assert_iteration", "fault"}
    /\ InScan => ValidIndex(Top.it)
    /\ (status = "running" /\ Top.pc = "switch") => ~EnterTouchesWild(Top)

\* the indices an invocation works on: its first n list elements, and its
\* boundary set where that is longer
Covered(f) ==
    {Follow(list, wild, f.first, j) :
        j \in 0..((IF f.n > f.boundarySet THEN f.n ELSE f.boundarySet) - 1)}

\* C18.  In the scan loop of every invocation the candidate sphere contains
\* every point the invocation has handled so far, its boundary set and the
\* points its loop has passed; and the recursive call for a violating point
\* works on that point and all the points its caller had handled.
C18_ScanInvariant ==
    status = "running" =>
        /\ Top.pc = "scan" =>
              \A k \in Top.scanned : ValidIndex(k) /\ Contains(Top.mbs, list[k].p)
        /\ (Len(stack) > 1 /\ Top.pc = "switch") =>
              LET c == stack[Len(stack) - 1]
              IN  (c.scanned \cup {c.it}) \subseteq Covered(Top)

\* the support sizes on the call stack are 1, 2, ... : each call has one more
\* than its caller, none has more than 4 and one with 4 has no callee
SupportSizes ==
    status = "running" =>
        /\ Len(stack) \in 1..4
        /\ \A d \in DOMAIN stack : stack[d].boundarySet \in 1..4
        /\ \A d \in 1..(Len(stack) - 1) :
              /\ stack[d + 1].boundarySet = stack[d].boundarySet + 1
              /\ stack[d].boundarySet # 4

\* the call has ended: it returned, or it stopped at a failed assertion or at
\* a faulting access
Ended == status \in {"done", "assert_points", "assert_iteration", "fault"}

\* What is left to do in one invocation: the iterations its loop has not
\* run, and within an iteration the position in the body.
FrameRank(f) ==
    4 * (f.n - f.i + 5)
      + (CASE f.pc = "switch" -> 3 [] f.pc = "scan" -> 2
           [] f.pc = "wait" -> 1 [] OTHER -> 0)

RankBase == 4 * (NumPoints + 6)

RECURSIVE Power(_, _)
Power(b, e) == IF e = 0 THEN 1 ELSE b * Power(b, e - 1)

\* What is left to do in the whole call, the outermost invocation counting
\* most: a natural number while SupportSizes holds.
Rank ==
    CASE status = "call" -> 2 * Power(RankBase, 4)
      [] status = "running" ->
            Power(RankBase, 4)
              + (LET term[d \in 0..Len(stack)] ==
                        IF d = 0 THEN 0
                        ELSE term[d - 1] + FrameRank(stack[d]) * Power(RankBase, 4 - d)
                 IN  term[Len(stack)])
      [] OTHER -> 0

\* a call that has not ended can take a step: the constructor, the switch,
\* the failing assertion, one of the two outcomes of the test in the loop, or
\* a return
Progress ==
    ~Ended =>
        \/ status = "call"
        \/ /\ status = "running" /\ Top.pc = "switch"
           /\ \E w \in (IF EnterTouchesWild(Top) THEN WildChoices ELSE {wild}) :
                  BaseSphere(list, w, Top.first, Top.boundarySet) # {}
        \/ InScan /\ Top.it = -1
        \/ /\ InScan /\ Top.it # -1
           /\ \E w \in (IF ValidIndex(Top.it) THEN {wild} ELSE WildChoices) :
                  \/ MayNotExceed(Top.mbs, Top.mbs, Elem(list, w, Top.it).p)
                  \/ MayExceed(Top.mbs, Top.mbs, Elem(list, w, Top.it).p)
        \/ Returning

\* every step of the call keeps the support sizes in order and lowers Rank
StepsDown == SupportSizes' /\ Rank' < Rank /\ Rank' >= 0

\* C19.  Every call Sphere(points, n) ends: while it has not ended it can
\* take a step, and every step lowers a natural number.  The support size of
\* every invocation is in 1..4 and one larger than its caller's, an
\* invocation with support size 4 makes no call, and the recursion is never
\* deeper than 4.
C19_Termination == []Progress /\ [][StepsDown]_vars

\* an invocation with support size 4, at depth 4, returns its sphere
C19_Witness ==
    /\ status = "running" /\ Len(stack) = 4
    /\ Top.boundarySet = 4 /\ Top.pc = "ret"
    /\ points = <<<<1, 2, 2>>, <<0, 0, 0>>, <<1, 2, 2>>,
                  <<0, 0, 0>>, <<0, 0, 0>>, <<2, 0, 2>>>>

---------------------------------------------------------------------------
(* The buffer of convexSet, checked under ReducerSpec                       *)

\* how often v is among the first n points of b
Occurrences(b, n, v) == Cardinality({k \in 1..n : b[k] = v})

\* the count is within 0..n, never 0 for a buffer that had a point, and the
\* first numPoints points are points of the input, none more often than there
PrefixOfInput ==
    rpc # "off" =>
        /\ numPoints \in 0..Len(input)
        /\ Len(input) >= 1 => numPoints >= 1
        /\ Len(buf) = Len(input)
        /\ ri \in 0..numPoints
        /\ \A k \in 1..numPoints :
              Occurrences(buf, numPoints, buf[k]) <= Occurrences(input, Len(input), buf[k])

\* a step of phase 2 that starts with two points or more leaves two or more
Phase2KeepsTwo ==
    (rpc \in {"between", "phase2"} /\ numPoints >= 2) => numPoints' >= 2

\* C20.  At every step of convexSet, in both phases, the count is within
\* 0..n and the first count points of the buffer are a sub-multiset of the
\* input; for n >= 1 the count, and so the returned count, is at least 1;
\* and phase 2 never takes the count below 2 when 2 or more points are left
\* after phase 1.
C20_BufferInvariant == []PrefixOfInput /\ [][Phase2KeepsTwo]_vars

\* phase 2 of the first call has removed the point at index 0 of a buffer of
\* different points: the last point is now in slot 0 and i is 0 again
C20_Witness ==
    /\ rpc = "phase2" /\ run = 1 /\ ri = 0 /\ threshold = 0
    /\ Len(input) >= 4
    /\ ClosePairs(input, Len(input), threshold) = {}
    /\ numPoints = Len(input) - 1
    /\ buf[1] = input[Len(input)]

---------------------------------------------------------------------------
(* Properties of the oriented box fitter, checked under OBoxSpec            *)

\* in the local frame of b point p is within sides/2 of the center on each axis
Within(b, p) ==
    \A a \in 1..3 :
        2 * Abs(dot(sub(scale(p, b.cd), b.cn), b.axes[a])) <= b.ext[a] * b.cd

\* b is a box one of the branches of the constructor has fitted: its sides
\* are not the initial ones, center and orientation are assigned and no NaN
Fitted(b) == ~b.sent /\ b.set /\ ~b.nan

\* C11.  The box OBox(points, n) returns for n >= 1 is a fitted one, never
\* the box with the initial sides 1e30, and every point of the buffer lies
\* within sides/2 of its center on each local axis.
C11_BoxContainment ==
    (opc = "done" /\ Len(opts) >= 1) =>
        /\ Fitted(obox)
        /\ \A m \in DOMAIN opts : Within(obox, opts[m])

\* C12.  OBox(points, 0) stops at an assertion: no element of the buffer is
\* read, neither loop test lets an iteration run and no box is returned.
C12_EmptyBufferAsserts ==
    (Len(opts) = 0 /\ opc # "call") =>
        /\ opc = "assert_points"
        /\ oreads = {}
        /\ oloop = NoLoop

\* the triples i < j < k of indices of a buffer of n points, in the order of
\* the three loops
RECURSIVE Combinations(_, _, _, _)
Combinations(n, i, j, k) ==
    IF i >= n - 2 THEN <<>>
    ELSE IF j >= n - 1 THEN Combinations(n, i + 1, i + 2, i + 3)
    ELSE IF k >= n THEN Combinations(n, i, j + 1, j + 2)
    ELSE <<<<i, j, k>>>> \o Combinations(n, i, j, k + 1)

TriedTriples == {<<otried[m].i, otried[m].j, otried[m].k>> : m \in DOMAIN otried}

\* the pairs of indices whose difference was the first axis of a candidate
FirstAxisPairs == {{otried[m].i, otried[m].j} : m \in DOMAIN otried}

\* C13 as the spec has it.  For n >= 3 OBox(points, n) has evaluated a
\* candidate for every ordered triple of pairwise different indices, and
\* every pair of points, those with the last point too, was the first axis
\* of one.
C13_EveryOrderedTriple ==
    (opc = "done" /\ Len(opts) >= 3) =>
        LET I == 0..(Len(opts) - 1)
        IN  /\ \A i, j, k \in I :
                  (i # j /\ i # k /\ j # k) => <<i, j, k>> \in TriedTriples
            /\ \A i, j \in I : i # j => {i, j} \in FirstAxisPairs

\* C13.  For n >= 3 OBox(points, n) evaluates one candidate for every triple
\* of indices i < j < k, in the order of the loops and no other: its first
\* axis is along points[i] - points[j] and its second axis comes from
\* points[i] - points[k].  The first axes are those of the pairs i < j with
\* j at most n - 2; the last point is never an end of one.
C13_TriplesInOrder ==
    (opc = "done" /\ Len(opts) >= 3) =>
        LET n == Len(opts)
            c == Combinations(n, 0, 1, 2)
        IN  /\ Len(otried) = Len(c)
            /\ \A m \in DOMAIN otried :
                  LET t == otried[m]
                  IN  /\ <<t.i, t.j, t.k>> = c[m]
                      /\ t.frame \in TestOrientations(
                             Primitive(sub(opts[t.i + 1], opts[t.j + 1])),
                             opts[t.i + 1], opts[t.k + 1])
            /\ FirstAxisPairs = {{i, j} : i, j \in 0..(n - 2)} \ {{i} : i \in 0..(n - 2)}

\* the four triples of four points that are not in a plane were evaluated
\* and the box of one of them is returned
C13_Witness ==
    /\ opc = "done" /\ Len(opts) = 4
    /\ determinant(sub(opts[2], opts[1]), sub(opts[3], opts[1]), sub(opts[4], opts[1])) # 0
    /\ TriedTriples = {<<0, 1, 2>>, <<0, 1, 3>>, <<0, 2, 3>>, <<1, 2, 3>>}
    /\ Fitted(obox)

\* C14.  For one point OBox(points, n) returns sides (0, 0, 0), the identity
\* orientation and the point as center.  For two points it returns sides
\* (|p1 - p0|, 0, 0), the midpoint as center and an orientation whose first
\* local axis is the direction of p1 - p0.
C14_SmallBoxes ==
    /\ (opc = "done" /\ Len(opts) = 1) =>
          /\ obox.ext = <<0, 0, 0>>
          /\ ~obox.nan /\ obox.axes = <<<<1, 0, 0>>, <<0, 1, 0>>, <<0, 0, 1>>>>
          /\ obox.cn = scale(opts[1], obox.cd)
    /\ (opc = "done" /\ Len(opts) = 2) =>
          /\ obox.ext[1] * obox.ext[1]
                = lensq(sub(opts[2], opts[1])) * lensq(obox.axes[1])
          /\ obox.ext[2] = 0 /\ obox.ext[3] = 0
          /\ scale(obox.cn, 2) = scale(add(opts[1], opts[2]), obox.cd)
          /\ ~obox.nan
          /\ obox.axes[1] = Primitive(sub(opts[2], opts[1]))

---------------------------------------------------------------------------
(* Properties of the fast frustum builder, checked under FrustumSpec        *)

\* vertex v[m] of the frustum built
Vertex(m) == ff.vertices[m + 1]

\* v[m] is on the near plane, on the far plane
OnNear(m) == dot(ff.nf.n, Vertex(m).num) + ff.nf.d0 * Vertex(m).den = 0

OnFar(m) == dot(ff.nf.n, Vertex(m).num) + ff.nf.d1 * Vertex(m).den = 0

\* v[m] is on the side plane p
OnSide(p, m) == ~p.nan /\ PlaneSide(p, Vertex(m)) = 0

\* the centroid of the eight vertices
Centroid ==
    LET sum[m \in 0..8] ==
            IF m = 0 THEN Point(<<0, 0, 0>>, 1) ELSE PointSum(sum[m - 1], ff.vertices[m])
    IN  Point(sum[8].num, 8 * sum[8].den)

\* the normal of side plane p points to the inside of the frustum
Inward(p) == ~p.nan /\ PlaneSide(p, Centroid) = 1

\* C15.  In the FastFrustum built from a valid Frustum the vertices 0-3 are
\* on the near plane and 4-7 on the far plane, 0, 1, 4, 5 on the left plane,
\* 2, 3, 6, 7 on the right, 0, 2, 4, 6 on the bottom and 1, 3, 5, 7 on the
\* top plane, and the centroid of the eight vertices has a positive signed
\* distance to each of the four side planes.
C15_FrustumConsistent ==
    fpc = "done" =>
        /\ \A m \in 0..3 : OnNear(m)
        /\ \A m \in 4..7 : OnFar(m)
        /\ \A m \in {0, 1, 4, 5} : OnSide(ff.l, m)
        /\ \A m \in {2, 3, 6, 7} : OnSide(ff.r, m)
        /\ \A m \in {0, 2, 4, 6} : OnSide(ff.b, m)
        /\ \A m \in {1, 3, 5, 7} : OnSide(ff.t, m)
        /\ Inward(ff.l) /\ Inward(ff.r) /\ Inward(ff.b) /\ Inward(ff.t)

\* a frustum off the axis of its direction, with a near plane away from the
\* apex and neither direction nor up along a positive coordinate axis
C15_Witness ==
    /\ fpc = "done"
    /\ fr.n > 0 /\ fr.l > 0 /\ fr.t < 0
    /\ fr.apex # <<0, 0, 0>>
    /\ fr.direction = <<0, 0, -1>> /\ fr.up = <<-1, 0, 0>>
    /\ Vertex(0) # Vertex(4)
    /\ Inward(ff.r) /\ OnSide(ff.r, 2)

=============================================================================
